---- MODULE Spec2Model ----
(***************************************************************************)
(* Model of nav_compare_multi_period.py: the name helpers (normalize,      *)
(* clean_text, extract_base_scheme, exclusion_reason, select_variant),     *)
(* extract() over one period's table and run() over two periods.           *)
(*                                                                         *)
(* A Python str is a sequence of one-character tokens.  The tokens "en"    *)
(* and "em" stand for the en dash U+2013 and the em dash U+2014.  A NAV is *)
(* a natural number; a cell that pd.to_numeric cannot coerce, or a column  *)
(* an outer merge leaves empty, is NaN.  flatten() and the spreadsheet     *)
(* reader/writer are the program's I/O and are not modelled: extract       *)
(* starts from the two-column table of lines 82-83.                        *)
(***************************************************************************)
EXTENDS Integers, Sequences, FiniteSets, TLC

VARIABLES
    RULES,        \* scheme_rules.json as loaded at import (lines 12-13)
    pc,           \* position of the running call
    \* ---- a call of one helper on one name
    name,         \* the argument
    term,         \* the remove-term deleted from name
    other,        \* name with term deleted
    base,         \* extract_base_scheme(name)
    base2,        \* extract_base_scheme(other)
    reason,       \* exclusion_reason(name)
    reason2,      \* exclusion_reason(name) after the keyword list was permuted
    \* ---- extract(file), lines 85-125
    table,        \* the rows of lines 82-83, before numeric coercion
    df,           \* lines 85-86, then lines 103-105
    total_raw,    \* line 88
    excluded,     \* line 90
    eligible,     \* line 91
    groups,       \* the groups df.groupby("Base") has still to yield
    seen,         \* the groups it yielded, and whether select_variant ran
    kept,         \* line 107
    variant_excl, \* line 108
    result,       \* the returned triple (line 125)
    \* ---- run(latest, past, output_file), lines 131-192
    latest,       \* the latest period's table
    past,         \* the past period's table
    l_res,        \* extract(latest)
    p_res,        \* extract(past)
    merged,       \* lines 138-144
    comp,         \* lines 149-160
    l_zero,       \* line 151
    p_zero,       \* line 152
    nav_comp,     \* lines 162-164
    l_excl,       \* lines 166-170
    p_excl,       \* lines 172-176
    rec           \* lines 178-186

textVars == <<name, term, other, base, base2, reason, reason2>>
extractVars == <<table, df, total_raw, excluded, eligible, groups, seen, kept,
                 variant_excl, result>>
runVars == <<latest, past, l_res, p_res, merged, comp, l_zero, p_zero,
             nav_comp, l_excl, p_excl, rec>>
vars == <<RULES, pc, textVars, extractVars, runVars>>

(***************************************************************************)
(* Bounds of the model.                                                    *)
(***************************************************************************)
MaxLen == 4        \* longest name given to a helper on its own
MaxTerms == 2      \* longest remove-term list / keyword list of those calls
MaxRows == 4       \* most rows of a table given to extract on its own
MaxRunRows == 2    \* most rows of each of run's two tables

(***************************************************************************)
(* Python str primitives.                                                  *)
(***************************************************************************)
SP == " "
HYPHEN == "-"
EN_DASH == "en"
EM_DASH == "em"
NaN == -1
NaNName == <<"NaN">>

\* Code point of a character: the order Python compares strings by.
Ord(c) ==
    CASE c = " " -> 32
      [] c = "-" -> 45
      [] c = "A" -> 65
      [] c = "B" -> 66
      [] c = "D" -> 68
      [] c = "F" -> 70
      [] c = "G" -> 71
      [] c = "H" -> 72
      [] c = "Q" -> 81
      [] c = "R" -> 82
      [] c = "a" -> 97
      [] c = "f" -> 102
      [] c = "en" -> 8211
      [] c = "em" -> 8212
      [] OTHER -> 0

\* str < str
RECURSIVE StrLess(_, _)
StrLess(a, b) ==
    IF b = <<>> THEN FALSE
    ELSE IF a = <<>> THEN TRUE
    ELSE IF a[1] = b[1] THEN StrLess(Tail(a), Tail(b))
    ELSE Ord(a[1]) < Ord(b[1])

UpperChar(c) ==
    CASE c = "a" -> "A"
      [] c = "f" -> "F"
      [] OTHER -> c

\* str.upper()
upper(s) == [i \in 1..Len(s) |-> UpperChar(s[i])]

\* str.split(): the maximal runs of non-whitespace characters
RECURSIVE split(_)
split(s) ==
    IF s = <<>> THEN <<>>
    ELSE IF s[1] = SP THEN split(Tail(s))
    ELSE LET rest == split(Tail(s))
         IN  IF Len(s) = 1 \/ s[2] = SP
             THEN <<(<<s[1]>>)>> \o rest
             ELSE <<(<<s[1]>> \o rest[1])>> \o Tail(rest)

\* " ".join(words)
RECURSIVE join(_)
join(words) ==
    IF words = <<>> THEN <<>>
    ELSE IF Len(words) = 1 THEN words[1]
    ELSE words[1] \o <<SP>> \o join(Tail(words))

\* k in s
Contains(k, s) ==
    \E i \in 0..(Len(s) - Len(k)) : SubSeq(s, i + 1, i + Len(k)) = k

\* s.replace(old, new): leftmost non-overlapping occurrences
RECURSIVE str_replace(_, _, _)
str_replace(s, old, new) ==
    IF old = <<>>
    THEN IF s = <<>> THEN new
         ELSE new \o <<s[1]>> \o str_replace(Tail(s), old, new)
    ELSE IF Len(s) < Len(old) THEN s
    ELSE IF SubSeq(s, 1, Len(old)) = old
         THEN new \o str_replace(SubSeq(s, Len(old) + 1, Len(s)), old, new)
         ELSE <<s[1]>> \o str_replace(Tail(s), old, new)

(***************************************************************************)
(* HELPERS (lines 19-47).                                                  *)
(***************************************************************************)
normalize(s) == join(split(upper(s)))

RECURSIVE ReplaceEach(_, _, _)
ReplaceEach(s, olds, new) ==
    IF olds = <<>> THEN s
    ELSE ReplaceEach(str_replace(s, olds[1], new), Tail(olds), new)

clean_text(s) ==
    normalize(ReplaceEach(s, <<(<<HYPHEN>>), (<<EN_DASH>>), (<<EM_DASH>>)>>, <<SP>>))

NoFinalNormalize(nm) ==
    ReplaceEach(clean_text(nm), RULES.base_scheme_remove_terms, <<>>)

extract_base_scheme(nm) ==
    normalize(ReplaceEach(clean_text(nm), RULES.base_scheme_remove_terms, <<>>))

\* None is <<>>; the f-string is its prefix followed by the keyword.
None == <<>>
ReasonOf(k) == <<"Excluded by rule: contains ", k>>

RECURSIVE FirstMatch(_, _)
FirstMatch(ks, nm) ==
    IF ks = <<>> THEN None
    ELSE IF Contains(ks[1], upper(nm)) THEN ReasonOf(ks[1])
    ELSE FirstMatch(Tail(ks), nm)

RECURSIVE LastMatch(_, _)
LastMatch(ks, nm) ==
    IF ks = <<>> THEN None
    ELSE IF Contains(ks[Len(ks)], upper(nm)) THEN ReasonOf(ks[Len(ks)])
    ELSE LastMatch(SubSeq(ks, 1, Len(ks) - 1), nm)

ReasonOfLastMatch(nm) == LastMatch(RULES.contains_any, nm)

exclusion_reason(nm) == FirstMatch(RULES.contains_any, nm)

(***************************************************************************)
(* Rows.  A row of a DataFrame is a record; idx is its index label, which  *)
(* the frames of extract inherit from the sheet (the row's position).      *)
(***************************************************************************)
Number(n) == [numeric |-> TRUE, v |-> n]
Text == [numeric |-> FALSE, v |-> 0]

\* pd.to_numeric(cell, errors="coerce")
to_numeric(cell) == IF cell.numeric THEN cell.v ELSE NaN

\* lines 85-86: the NAV column coerced, the rows with a NaN dropped
Coerce(file) ==
    LET all == [i \in DOMAIN file |->
                   [idx |-> i, name |-> file[i].name, NAV |-> to_numeric(file[i].NAV)]]
        Numeric(r) == r.NAV # NaN
    IN  SelectSeq(all, Numeric)

VARIANT_SELECTION == <<"Excluded: variant selection">>
ZERO_NAV == <<"Excluded: zero NAV">>
NOT_COMPARABLE == <<"Excluded: not comparable">>

\* lines 90-101: the scan that splits the rows on exclusion_reason
RECURSIVE FilterRows(_)
FilterRows(rows) ==
    IF rows = <<>> THEN [excluded |-> <<>>, eligible |-> <<>>]
    ELSE LET r == rows[1]
             why == exclusion_reason(r.name)
             rest == FilterRows(Tail(rows))
         IN  IF why # None
             THEN [excluded |-> <<[name |-> r.name, Reason |-> why]>> \o rest.excluded,
                   eligible |-> rest.eligible]
             ELSE [excluded |-> rest.excluded,
                   eligible |-> <<r>> \o rest.eligible]

\* lines 103-105: the Base and Key columns
Frame(rows) ==
    [i \in DOMAIN rows |->
        [idx |-> rows[i].idx, name |-> rows[i].name, NAV |-> rows[i].NAV,
         Base |-> extract_base_scheme(rows[i].name),
         Key |-> normalize(rows[i].name)]]

\* a set of strings in ascending order
RECURSIVE SortStrings(_)
SortStrings(S) ==
    IF S = {} THEN <<>>
    ELSE LET m == CHOOSE x \in S : \A y \in S : x = y \/ StrLess(x, y)
         IN  <<m>> \o SortStrings(S \ {m})

\* the distinct values of a column in order of first appearance
RECURSIVE FirstSeen(_, _)
FirstSeen(col, done) ==
    IF col = <<>> THEN <<>>
    ELSE IF col[1] \in done THEN FirstSeen(Tail(col), done)
    ELSE <<col[1]>> \o FirstSeen(Tail(col), done \cup {col[1]})

RowsWith(frame, column, value) ==
    LET Has(r) == r[column] = value
    IN  SelectSeq(frame, Has)

GroupsOf(frame, column, keys) ==
    [i \in DOMAIN keys |-> RowsWith(frame, column, keys[i])]

GroupByKeyColumn(frame) ==
    GroupsOf(frame, "Key", SortStrings({frame[i].Key : i \in DOMAIN frame}))

GroupByFirstSeen(frame) ==
    GroupsOf(frame, "Base", FirstSeen([i \in DOMAIN frame |-> frame[i].Base], {}))

\* line 110, df.groupby("Base"): the groups in ascending order of the key
\* (sort=True is the default), each keeping its rows in frame order
GroupByBase(frame) ==
    GroupsOf(frame, "Base", SortStrings({frame[i].Base : i \in DOMAIN frame}))

\* lines 41-44: the rows of grp whose uppercased name contains every keyword
Matching(grp, rule) ==
    LET Hit(r) == \A i \in DOMAIN rule : Contains(rule[i], upper(r.name))
    IN  SelectSeq(grp, Hit)

\* grp.drop(m.index): the rows of grp whose index label is not in m
Drop(grp, m) ==
    LET Stays(r) == \A i \in DOMAIN m : m[i].idx # r.idx
    IN  SelectSeq(grp, Stays)

RECURSIVE Ladder(_, _)
Ladder(rules, grp) ==
    IF rules = <<>> THEN [keep |-> grp[1], drop |-> Tail(grp)]
    ELSE LET m == Matching(grp, rules[1])
         IN  IF m # <<>> THEN [keep |-> m[1], drop |-> Drop(grp, m)]
             ELSE Ladder(Tail(rules), grp)

RECURSIVE LadderLastMatch(_, _)
LadderLastMatch(rules, grp) ==
    IF rules = <<>> THEN [keep |-> grp[1], drop |-> Tail(grp)]
    ELSE LET m == Matching(grp, rules[1])
         IN  IF m # <<>> THEN [keep |-> m[Len(m)], drop |-> Drop(grp, m)]
             ELSE LadderLastMatch(Tail(rules), grp)

SelectLastMatch(grp) == LadderLastMatch(RULES.priority_ladder, grp)

select_variant(grp) == Ladder(RULES.priority_ladder, grp)

\* lines 111-120: the body of the loop over the groups
GroupStep(grp) ==
    IF Len(grp) = 1
    THEN [keep |-> grp[1], drop |-> <<>>, ladder |-> FALSE]
    ELSE LET sv == select_variant(grp)
         IN  [keep |-> sv.keep, drop |-> sv.drop, ladder |-> TRUE]

VariantExcluded(rows) ==
    [i \in DOMAIN rows |-> [name |-> rows[i].name, Reason |-> VARIANT_SELECTION]]

\* lines 107-120: the loop over the groups
RECURSIVE GroupLoop(_)
GroupLoop(gs) ==
    IF gs = <<>> THEN [kept |-> <<>>, variant_excl |-> <<>>]
    ELSE LET st == GroupStep(gs[1])
             rest == GroupLoop(Tail(gs))
         IN  [kept |-> <<st.keep>> \o rest.kept,
              variant_excl |-> VariantExcluded(st.drop) \o rest.variant_excl]

\* lines 85-125.  pd.DataFrame([]) has no columns, so line 104 raises
\* KeyError when no row passed the filter: raised is TRUE and nothing is
\* returned.
extract(file) ==
    LET d == Coerce(file)
        f == FilterRows(d)
        g == GroupLoop(GroupByBase(Frame(f.eligible)))
    IN  IF f.eligible = <<>>
        THEN [raised |-> TRUE, final_df |-> <<>>, excluded_df |-> <<>>, total_raw |-> Len(d)]
        ELSE [raised |-> FALSE, final_df |-> g.kept,
              excluded_df |-> f.excluded \o g.variant_excl, total_raw |-> Len(d)]

(***************************************************************************)
(* SINGLE COMPARISON RUN (lines 131-192).                                  *)
(***************************************************************************)
RECURSIVE Concat(_)
Concat(seqs) == IF seqs = <<>> THEN <<>> ELSE seqs[1] \o Concat(Tail(seqs))

KeysOf(frame) == {frame[i].Key : i \in DOMAIN frame}

\* the rows an outer merge makes for one key: the pairs of a left and a right
\* row with the key, or the rows of the one side that has it, the columns of
\* the other side left NaN
MergedFor(l, p, k) ==
    LET L == RowsWith(l, "Key", k)
        P == RowsWith(p, "Key", k)
    IN  IF L # <<>> /\ P # <<>>
        THEN Concat([i \in DOMAIN L |-> [j \in DOMAIN P |->
                 [name |-> L[i].name, Latest |-> L[i].NAV, Base |-> L[i].Base,
                  Key |-> k, Past |-> P[j].NAV, _merge |-> "both"]]])
        ELSE IF L # <<>>
        THEN [i \in DOMAIN L |->
                 [name |-> L[i].name, Latest |-> L[i].NAV, Base |-> L[i].Base,
                  Key |-> k, Past |-> NaN, _merge |-> "left_only"]]
        ELSE [j \in DOMAIN P |->
                 [name |-> NaNName, Latest |-> NaN, Base |-> NaNName,
                  Key |-> k, Past |-> P[j].NAV, _merge |-> "right_only"]]

\* lines 135-144: pd.merge(l_df, p_df[["Key", "Past NAV"]], on="Key",
\* how="outer", indicator=True); an outer merge orders its rows by the key
Merge(l, p) ==
    LET keys == SortStrings(KeysOf(l) \cup KeysOf(p))
    IN  Concat([n \in DOMAIN keys |-> MergedFor(l, p, keys[n])])

Indicated(frame, ind) ==
    LET Is(r) == r._merge = ind
    IN  SelectSeq(frame, Is)

LatestZero(r) == r.Latest = 0
PastZero(r) == r.Past = 0

LatestNonZeroOnly(r) == r.Latest # 0

\* lines 154-157: the mask of the rows that stay in comp
NonZero(r) == r.Latest # 0 /\ r.Past # 0

\* a / b rounded to the nearest integer, halves to the even one (b > 0)
RoundDiv(a, b) ==
    LET q == (2 * a + b) \div (2 * b)
    IN  IF (2 * a + b) % (2 * b) = 0 /\ q % 2 = 1 THEN q - 1 ELSE q

Inf == 1000000000

\* line 160: (change / past * 100).round(2), in hundredths of a percent;
\* a float division by zero gives inf, -inf or NaN
ChangePct(change, pastv) ==
    IF pastv = 0
    THEN IF change > 0 THEN Inf ELSE IF change < 0 THEN -Inf ELSE Inf + 1
    ELSE RoundDiv(change * 10000, pastv)

\* lines 159-160
WithChange(frame) ==
    [i \in DOMAIN frame |->
        [name |-> frame[i].name, Latest |-> frame[i].Latest, Past |-> frame[i].Past,
         Change |-> frame[i].Latest - frame[i].Past,
         ChangePct |-> ChangePct(frame[i].Latest - frame[i].Past, frame[i].Past)]]

\* sort_values("Change %", ascending=False)
RECURSIVE InsertDesc(_, _)
InsertDesc(r, sorted) ==
    IF sorted = <<>> THEN <<r>>
    ELSE IF sorted[1].ChangePct >= r.ChangePct
         THEN <<sorted[1]>> \o InsertDesc(r, Tail(sorted))
         ELSE <<r>> \o sorted
RECURSIVE SortDesc(_)
SortDesc(frame) ==
    IF frame = <<>> THEN <<>>
    ELSE InsertDesc(frame[Len(frame)], SortDesc(SubSeq(frame, 1, Len(frame) - 1)))

\* frame.assign(Reason=why)[["Mutual Fund Name", "Reason"]]
Assign(frame, why) ==
    [i \in DOMAIN frame |-> [name |-> frame[i].name, Reason |-> why]]

\* lines 166-176
ConcatExcluded(excl, zero, nc) ==
    excl \o Assign(zero, ZERO_NAV) \o Assign(nc, NOT_COMPARABLE)

(***************************************************************************)
(* Input domains.                                                          *)
(***************************************************************************)
Strings(chars, n) == UNION {[1..k -> chars] : k \in 0..n}
Lists(pool, n) == UNION {[1..k -> pool] : k \in 0..n}
Perms(s) ==
    {[i \in DOMAIN s |-> s[f[i]]] :
        f \in {g \in [DOMAIN s -> DOMAIN s] : \A i, j \in DOMAIN s : g[i] = g[j] => i = j}}

BaseChars == {"A", "B", SP, HYPHEN}
ExclChars == {"a", "A", "B", SP}
TermPool == {<<"A">>, <<"B">>, <<"A", "B">>, <<"A", SP, "B">>}
KeywordPool == {<<"A">>, <<"B">>, <<"A", "B">>, <<"a">>}

RulesOf(terms, keywords, ladder) ==
    [base_scheme_remove_terms |-> terms, contains_any |-> keywords,
     priority_ladder |-> ladder]

TextIdle ==
    /\ name = <<>> /\ term = <<>> /\ other = <<>>
    /\ base = <<>> /\ base2 = <<>> /\ reason = None /\ reason2 = None
ExtractIdle ==
    /\ table = <<>> /\ df = <<>> /\ total_raw = 0 /\ excluded = <<>>
    /\ eligible = <<>> /\ groups = <<>> /\ seen = <<>> /\ kept = <<>>
    /\ variant_excl = <<>> /\ result = <<>>
RunIdle ==
    /\ latest = <<>> /\ past = <<>> /\ l_res = <<>> /\ p_res = <<>>
    /\ merged = <<>> /\ comp = <<>> /\ l_zero = <<>> /\ p_zero = <<>>
    /\ nav_comp = <<>> /\ l_excl = <<>> /\ p_excl = <<>> /\ rec = <<>>

(***************************************************************************)
(* extract_base_scheme on a name, then on the name with one of the         *)
(* configured remove-terms deleted from it.                                *)
(***************************************************************************)
InitBase ==
    /\ pc = "call_base"
    /\ RULES \in {RulesOf(t, <<>>, <<>>) : t \in Lists(TermPool, MaxTerms)}
    /\ name \in Strings(BaseChars, MaxLen)
    /\ term = <<>> /\ other = <<>>
    /\ base = <<>> /\ base2 = <<>> /\ reason = None /\ reason2 = None
    /\ ExtractIdle /\ RunIdle

CallBaseScheme ==
    /\ pc = "call_base"
    /\ base' = extract_base_scheme(name)
    /\ pc' = "delete_term"
    /\ UNCHANGED <<RULES, name, term, other, base2, reason, reason2, extractVars, runVars>>

DeleteTerm ==
    /\ pc = "delete_term"
    /\ \E i \in DOMAIN RULES.base_scheme_remove_terms :
          LET t == RULES.base_scheme_remove_terms[i]
          IN  /\ Contains(t, name)
              /\ term' = t
              /\ other' = str_replace(name, t, <<>>)
    /\ pc' = "call_base2"
    /\ UNCHANGED <<RULES, name, base, base2, reason, reason2, extractVars, runVars>>

CallBaseSchemeOther ==
    /\ pc = "call_base2"
    /\ base2' = extract_base_scheme(other)
    /\ pc' = "compared"
    /\ UNCHANGED <<RULES, name, term, other, base, reason, reason2, extractVars, runVars>>

NextBase == CallBaseScheme \/ DeleteTerm \/ CallBaseSchemeOther
SpecBase == InitBase /\ [][NextBase]_vars

(***************************************************************************)
(* exclusion_reason on a name, then again with the keyword list permuted.  *)
(***************************************************************************)
InitExcl ==
    /\ pc = "call_excl"
    /\ RULES \in {RulesOf(<<>>, k, <<>>) : k \in Lists(KeywordPool, MaxTerms)}
    /\ name \in Strings(ExclChars, MaxLen)
    /\ term = <<>> /\ other = <<>>
    /\ base = <<>> /\ base2 = <<>> /\ reason = None /\ reason2 = None
    /\ ExtractIdle /\ RunIdle

CallExclusionReason ==
    /\ pc = "call_excl"
    /\ reason' = exclusion_reason(name)
    /\ pc' = "permute"
    /\ UNCHANGED <<RULES, name, term, other, base, base2, reason2, extractVars, runVars>>

PermuteKeywords ==
    /\ pc = "permute"
    /\ \E p \in Perms(RULES.contains_any) :
          RULES' = [RULES EXCEPT !.contains_any = p]
    /\ pc' = "call_excl2"
    /\ UNCHANGED <<textVars, extractVars, runVars>>

CallExclusionReasonPermuted ==
    /\ pc = "call_excl2"
    /\ reason2' = exclusion_reason(name)
    /\ pc' = "excl_done"
    /\ UNCHANGED <<RULES, name, term, other, base, base2, reason, extractVars, runVars>>

NextExcl == CallExclusionReason \/ PermuteKeywords \/ CallExclusionReasonPermuted
SpecExcl == InitExcl /\ [][NextExcl]_vars

(***************************************************************************)
(* extract(file) on one period's table, statement by statement.            *)
(***************************************************************************)
N_HR == <<"H", HYPHEN, "R">>
N_FD == <<"F", HYPHEN, "D">>
N_fDG == <<"f", HYPHEN, "D", "G">>
N_FR == <<"F", HYPHEN, "R">>
N_FQ == <<"F", "Q">>
ExtractNames == {N_HR, N_FD, N_fDG, N_FR, N_FQ}
\* every name with a numeric NAV, one of them also with a cell that is no number
ExtractRows ==
    {[name |-> n, NAV |-> Number(1)] : n \in ExtractNames}
        \cup {[name |-> N_FD, NAV |-> Text]}

RuleSets ==
    { RulesOf(<<(<<"D">>), (<<"R">>), (<<"G">>)>>, <<(<<"Q">>)>>, <<(<<(<<"D">>)>>)>>),
      RulesOf(<<(<<"D">>), (<<"R">>), (<<"G">>)>>, <<>>,
              <<(<<(<<"G">>), (<<"D">>)>>), (<<(<<"R">>)>>)>>),
      RulesOf(<<(<<"G">>), (<<"D">>), (<<"R">>)>>, <<(<<"Q">>)>>, <<>>),
      RulesOf(<<>>, <<(<<"R">>), (<<"Q">>)>>, <<(<<(<<"D">>)>>)>>) }


InitExtract ==
    /\ pc = "ex_coerce"
    /\ RULES \in RuleSets
    /\ table \in Lists(ExtractRows, MaxRows)
    /\ df = <<>> /\ total_raw = 0 /\ excluded = <<>> /\ eligible = <<>>
    /\ groups = <<>> /\ seen = <<>> /\ kept = <<>> /\ variant_excl = <<>>
    /\ result = <<>>
    /\ TextIdle /\ RunIdle

\* lines 85-88
ExCoerce ==
    /\ pc = "ex_coerce"
    /\ df' = Coerce(table)
    /\ total_raw' = Len(Coerce(table))
    /\ pc' = "ex_filter"
    /\ UNCHANGED <<RULES, textVars, table, excluded, eligible, groups, seen, kept,
                   variant_excl, result, runVars>>

\* lines 90-101
ExFilter ==
    /\ pc = "ex_filter"
    /\ excluded' = FilterRows(df).excluded
    /\ eligible' = FilterRows(df).eligible
    /\ pc' = "ex_frame"
    /\ UNCHANGED <<RULES, textVars, table, df, total_raw, groups, seen, kept,
                   variant_excl, result, runVars>>

\* lines 103-108, some row being eligible
ExFrame ==
    /\ pc = "ex_frame"
    /\ eligible # <<>>
    /\ df' = Frame(eligible)
    /\ groups' = GroupByBase(Frame(eligible))
    /\ kept' = <<>>
    /\ variant_excl' = <<>>
    /\ pc' = "ex_group"
    /\ UNCHANGED <<RULES, textVars, table, total_raw, excluded, eligible, seen,
                   result, runVars>>

\* lines 103-104, no row being eligible: KeyError
ExFrameRaise ==
    /\ pc = "ex_frame"
    /\ eligible = <<>>
    /\ df' = <<>>
    /\ pc' = "ex_error"
    /\ UNCHANGED <<RULES, textVars, table, total_raw, excluded, eligible, groups,
                   seen, kept, variant_excl, result, runVars>>

\* lines 110-120, one iteration
ExGroup ==
    /\ pc = "ex_group"
    /\ groups # <<>>
    /\ LET st == GroupStep(groups[1])
       IN  /\ kept' = Append(kept, st.keep)
           /\ variant_excl' = variant_excl \o VariantExcluded(st.drop)
           /\ seen' = Append(seen, [grp |-> groups[1], keep |-> st.keep,
                                    drop |-> st.drop, ladder |-> st.ladder])
    /\ groups' = Tail(groups)
    /\ UNCHANGED <<RULES, pc, textVars, table, df, total_raw, excluded, eligible,
                   result, runVars>>

\* lines 122-125
ExReturn ==
    /\ pc = "ex_group"
    /\ groups = <<>>
    /\ result' = [final_df |-> kept, excluded_df |-> excluded \o variant_excl,
                  total_raw |-> total_raw]
    /\ pc' = "ex_done"
    /\ UNCHANGED <<RULES, textVars, table, df, total_raw, excluded, eligible,
                   groups, seen, kept, variant_excl, runVars>>

NextExtract == ExCoerce \/ ExFilter \/ ExFrame \/ ExFrameRaise \/ ExGroup \/ ExReturn
SpecExtract == InitExtract /\ [][NextExtract]_vars

C7_Case ==
    /\ pc = "compared"
    /\ Len(RULES.base_scheme_remove_terms) = 1
    /\ name = clean_text(name)
    /\ ~Contains(term, clean_text(other))
MatchingKeywords == {i \in DOMAIN RULES.contains_any :
                        Contains(RULES.contains_any[i], upper(name))}
CitesEarliest(r) ==
    IF MatchingKeywords = {} THEN r = None
    ELSE /\ r # None
         /\ \E i \in MatchingKeywords :
               /\ \A j \in MatchingKeywords : i <= j
               /\ r = <<"Excluded by rule: contains ", RULES.contains_any[i]>>
C8_FirstMatch ==
    /\ pc = "permute" => CitesEarliest(reason)
    /\ pc = "excl_done" => /\ CitesEarliest(reason2)
                           /\ (reason = None) <=> (reason2 = None)
C8_Witness ==
    /\ pc = "excl_done"
    /\ Cardinality(MatchingKeywords) = 2
    /\ reason # None /\ reason2 # None /\ reason # reason2

(***************************************************************************)
(* Vocabulary of the claims about extract.                                 *)
(***************************************************************************)
Names(rows) == [i \in DOMAIN rows |-> rows[i].name]

\* a is b with some elements left out
RECURSIVE IsSubseq(_, _)
IsSubseq(a, b) ==
    IF a = <<>> THEN TRUE
    ELSE IF b = <<>> THEN FALSE
    ELSE IF a[1] = b[1] THEN IsSubseq(Tail(a), Tail(b))
    ELSE IsSubseq(a, Tail(b))

\* the rows that passed the exclusion filter and have base scheme b
PassedWith(b) == {i \in DOMAIN eligible : extract_base_scheme(eligible[i].name) = b}
PassedBases == {extract_base_scheme(eligible[i].name) : i \in DOMAIN eligible}
\* the sheet position at which the group of base scheme b is first met
FirstMet(b) ==
    CHOOSE n \in {eligible[i].idx : i \in PassedWith(b)} :
        \A i \in PassedWith(b) : n <= eligible[i].idx

IsVariantEntry(e) == e.Reason = VARIANT_SELECTION
IsKeywordEntry(e) == e.Reason # VARIANT_SELECTION
VariantEntriesOf(b) ==
    LET Of(e) == IsVariantEntry(e) /\ extract_base_scheme(e.name) = b
    IN  SelectSeq(result.excluded_df, Of)

(***************************************************************************)
(* C1: after extract the kept rows plus the excluded rows (keyword and     *)
(* variant selection) are as many as the rows that survived numeric        *)
(* coercion.                                                               *)
(***************************************************************************)
C1_PartitionComplete ==
    pc = "ex_done" =>
        Len(result.final_df) + Len(result.excluded_df) = Len(Coerce(table))

(***************************************************************************)
(* C3: after extract, every base scheme among the rows that passed the     *)
(* exclusion filter has exactly one row in the eligible output, and that   *)
(* row is one of the input rows of its group.                              *)
(***************************************************************************)
C3_OneSurvivor ==
    pc = "ex_done" =>
        \A b \in PassedBases :
            LET S == {j \in DOMAIN result.final_df : result.final_df[j].Base = b}
            IN  /\ Cardinality(S) = 1
                /\ \A j \in S : \E i \in PassedWith(b) :
                      /\ eligible[i].idx = result.final_df[j].idx
                      /\ eligible[i].name = result.final_df[j].name
                      /\ eligible[i].NAV = result.final_df[j].NAV
C3_Witness ==
    /\ pc = "ex_done"
    /\ Cardinality(PassedBases) >= 2
    /\ \E b \in PassedBases : Cardinality(PassedWith(b)) >= 2
    /\ Len(result.final_df) = Cardinality(PassedBases)

(***************************************************************************)
(* C4: for a group of two or more rows select_variant keeps the first row, *)
(* in group order, among those matching the earliest ladder rung that any  *)
(* row of the group matches, and the first row of the group if no rung is  *)
(* matched; a group of one row yields that row and the ladder is not       *)
(* consulted.                                                              *)
(***************************************************************************)
RungHits(grp, rung) ==
    {j \in DOMAIN grp : \A k \in DOMAIN rung : Contains(rung[k], upper(grp[j].name))}
MatchedRungs(grp) ==
    {i \in DOMAIN RULES.priority_ladder : RungHits(grp, RULES.priority_ladder[i]) # {}}
WinnerRule(e) ==
    IF Len(e.grp) = 1 THEN e.keep = e.grp[1] /\ ~e.ladder
    ELSE /\ e.ladder
         /\ IF MatchedRungs(e.grp) = {} THEN e.keep = e.grp[1]
            ELSE \E i \in MatchedRungs(e.grp) :
                    /\ \A i2 \in MatchedRungs(e.grp) : i <= i2
                    /\ \E j \in RungHits(e.grp, RULES.priority_ladder[i]) :
                          /\ \A j2 \in RungHits(e.grp, RULES.priority_ladder[i]) : j <= j2
                          /\ e.keep = e.grp[j]
C4_WinnerRule == \A n \in DOMAIN seen : WinnerRule(seen[n])
C4_Witness ==
    /\ \E n \in DOMAIN seen :
          /\ Len(seen[n].grp) >= 2
          /\ seen[n].keep # seen[n].grp[1]
          /\ MatchedRungs(seen[n].grp) # {}
          /\ 1 \notin MatchedRungs(seen[n].grp)
    /\ \E n \in DOMAIN seen : Len(seen[n].grp) = 1

(***************************************************************************)
(* C9 (as stated): the eligible output lists the winners in the order in   *)
(* which their groups were first met in the input scan, and the excluded   *)
(* output lists the excluded rows in the order in which the scan met them. *)
(***************************************************************************)
C9_EncounterOrder ==
    pc = "ex_done" =>
        /\ \A i, j \in DOMAIN result.final_df :
              i < j => FirstMet(result.final_df[i].Base) < FirstMet(result.final_df[j].Base)
        /\ IsSubseq(Names(result.excluded_df), Names(table))

(***************************************************************************)
(* C9 (amended): the eligible output lists the winners in ascending order  *)
(* of their base scheme; the excluded output lists first the keyword-      *)
(* excluded rows in scan order, then the variant-selection rows, group by  *)
(* group in ascending order of base scheme and in scan order within a      *)
(* group.                                                                  *)
(***************************************************************************)
C9_GroupKeyOrder ==
    pc = "ex_done" =>
        LET E == result.excluded_df
        IN  /\ \A i, j \in DOMAIN result.final_df :
                  i < j => StrLess(result.final_df[i].Base, result.final_df[j].Base)
            /\ \A i, j \in DOMAIN E :
                  i < j /\ IsVariantEntry(E[i]) => IsVariantEntry(E[j])
            /\ IsSubseq(Names(SelectSeq(E, IsKeywordEntry)), Names(table))
            /\ \A i, j \in DOMAIN E :
                  i < j /\ IsVariantEntry(E[i]) =>
                      \/ extract_base_scheme(E[i].name) = extract_base_scheme(E[j].name)
                      \/ StrLess(extract_base_scheme(E[i].name),
                                 extract_base_scheme(E[j].name))
            /\ \A b \in PassedBases : IsSubseq(Names(VariantEntriesOf(b)), Names(table))
C9_Witness ==
    /\ pc = "ex_done"
    /\ Len(result.final_df) >= 2
    /\ FirstMet(result.final_df[2].Base) < FirstMet(result.final_df[1].Base)
    /\ \E i \in DOMAIN result.excluded_df : IsKeywordEntry(result.excluded_df[i])
    /\ \E i \in DOMAIN result.excluded_df : IsVariantEntry(result.excluded_df[i])
    /\ ~IsSubseq(Names(result.excluded_df), Names(table))

(***************************************************************************)
(* C10: when no row of the table survives numeric coercion, extract        *)
(* completes and returns an empty result: no eligible row, no excluded     *)
(* row, a raw total of 0.                                                  *)
(***************************************************************************)
C10_EmptyReturns ==
    (Coerce(table) = <<>> /\ pc \in {"ex_done", "ex_error"}) =>
        /\ pc = "ex_done"
        /\ result = [final_df |-> <<>>, excluded_df |-> <<>>, total_raw |-> 0]

(***************************************************************************)
(* run(latest, past, output_file) on two periods' tables.                  *)
(***************************************************************************)
N_fDsp == <<"f", HYPHEN, "D", SP>>
N_FenD == <<"F", EN_DASH, "D">>
RunRow(n, v) == [name |-> n, NAV |-> Number(v)]
LatestRows ==
    {RunRow(N_FD, 0), RunRow(N_FD, 2), RunRow(N_fDsp, 1), RunRow(N_FenD, 1),
     RunRow(N_HR, 0), RunRow(N_HR, 1)}
PastRows ==
    {RunRow(N_FD, 0), RunRow(N_FD, 1), RunRow(N_fDsp, 1), RunRow(N_FenD, 2),
     RunRow(N_HR, 0), RunRow(N_HR, 2)}
RunRules == RulesOf(<<(<<"D">>), (<<"R">>)>>, <<(<<"Q">>)>>, <<(<<(<<"D">>)>>)>>)

Init ==
    /\ pc = "run_latest"
    /\ RULES = RunRules
    /\ latest \in Lists(LatestRows, MaxRunRows)
    /\ past \in Lists(PastRows, MaxRunRows)
    /\ l_res = <<>> /\ p_res = <<>> /\ merged = <<>> /\ comp = <<>>
    /\ l_zero = <<>> /\ p_zero = <<>> /\ nav_comp = <<>>
    /\ l_excl = <<>> /\ p_excl = <<>> /\ rec = <<>>
    /\ TextIdle /\ ExtractIdle

\* line 132
RunExtractLatest ==
    /\ pc = "run_latest"
    /\ ~extract(latest).raised
    /\ l_res' = extract(latest)
    /\ pc' = "run_past"
    /\ UNCHANGED <<RULES, textVars, extractVars, latest, past, p_res, merged, comp,
                   l_zero, p_zero, nav_comp, l_excl, p_excl, rec>>

\* line 132, extract raising
RunExtractLatestRaise ==
    /\ pc = "run_latest"
    /\ extract(latest).raised
    /\ pc' = "run_error"
    /\ UNCHANGED <<RULES, textVars, extractVars, runVars>>

\* line 133
RunExtractPast ==
    /\ pc = "run_past"
    /\ ~extract(past).raised
    /\ p_res' = extract(past)
    /\ pc' = "run_merge"
    /\ UNCHANGED <<RULES, textVars, extractVars, latest, past, l_res, merged, comp,
                   l_zero, p_zero, nav_comp, l_excl, p_excl, rec>>

\* line 133, extract raising
RunExtractPastRaise ==
    /\ pc = "run_past"
    /\ extract(past).raised
    /\ pc' = "run_error"
    /\ UNCHANGED <<RULES, textVars, extractVars, runVars>>

\* lines 135-144
RunMerge ==
    /\ pc = "run_merge"
    /\ merged' = Merge(l_res.final_df, p_res.final_df)
    /\ pc' = "run_zero"
    /\ UNCHANGED <<RULES, textVars, extractVars, latest, past, l_res, p_res, comp,
                   l_zero, p_zero, nav_comp, l_excl, p_excl, rec>>

\* lines 149-157
RunZeroFilter ==
    /\ pc = "run_zero"
    /\ l_zero' = SelectSeq(Indicated(merged, "both"), LatestZero)
    /\ p_zero' = SelectSeq(Indicated(merged, "both"), PastZero)
    /\ comp' = SelectSeq(Indicated(merged, "both"), NonZero)
    /\ pc' = "run_change"
    /\ UNCHANGED <<RULES, textVars, extractVars, latest, past, l_res, p_res, merged,
                   nav_comp, l_excl, p_excl, rec>>

\* lines 159-164
RunChange ==
    /\ pc = "run_change"
    /\ comp' = WithChange(comp)
    /\ nav_comp' = SortDesc(WithChange(comp))
    /\ pc' = "run_concat"
    /\ UNCHANGED <<RULES, textVars, extractVars, latest, past, l_res, p_res, merged,
                   l_zero, p_zero, l_excl, p_excl, rec>>

\* lines 146-147 and 166-186; the four sheets of lines 188-192 are these frames
RunConcat ==
    /\ pc = "run_concat"
    /\ l_excl' = ConcatExcluded(l_res.excluded_df, l_zero, Indicated(merged, "left_only"))
    /\ p_excl' = ConcatExcluded(p_res.excluded_df, p_zero, Indicated(merged, "right_only"))
    /\ rec' = << <<"Latest", "Total Raw", l_res.total_raw>>,
                 <<"Latest", "Included in NAV Comparison", Len(nav_comp)>>,
                 <<"Latest", "Excluded Schemes",
                   Len(ConcatExcluded(l_res.excluded_df, l_zero,
                                      Indicated(merged, "left_only")))>>,
                 <<"Past", "Total Raw", p_res.total_raw>>,
                 <<"Past", "Included in NAV Comparison", Len(nav_comp)>>,
                 <<"Past", "Excluded Schemes",
                   Len(ConcatExcluded(p_res.excluded_df, p_zero,
                                      Indicated(merged, "right_only")))>> >>
    /\ pc' = "run_done"
    /\ UNCHANGED <<RULES, textVars, extractVars, latest, past, l_res, p_res, merged,
                   comp, l_zero, p_zero, nav_comp>>

Next ==
    \/ RunExtractLatest \/ RunExtractLatestRaise
    \/ RunExtractPast \/ RunExtractPastRaise
    \/ RunMerge \/ RunZeroFilter \/ RunChange \/ RunConcat
Spec == Init /\ [][Next]_vars

(***************************************************************************)
(* Vocabulary of the claims about run.                                     *)
(***************************************************************************)
\* the join keys of the names a sheet lists
ListedKeys(sheet) == {normalize(sheet[i].name) : i \in DOMAIN sheet}
EligibleKeys == KeysOf(l_res.final_df) \cup KeysOf(p_res.final_df)
Count(a, b, c) == (IF a THEN 1 ELSE 0) + (IF b THEN 1 ELSE 0) + (IF c THEN 1 ELSE 0)

\* a name with every dash glyph written as a hyphen
OneDashGlyph(s) ==
    [i \in DOMAIN s |-> IF s[i] \in {EN_DASH, EM_DASH} THEN HYPHEN ELSE s[i]]
\* equal up to letter case, whitespace runs and the choice of dash glyph
SameUpToGlyphs(a, b) == normalize(OneDashGlyph(a)) = normalize(OneDashGlyph(b))

(***************************************************************************)
(* C2: after run, every join key of latest.eligible or past.eligible is    *)
(* listed in exactly one of the comparison rows, latestExcluded and        *)
(* pastExcluded.                                                           *)
(***************************************************************************)
C2_ExactlyOneOutput ==
    pc = "run_done" =>
        \A k \in EligibleKeys :
            Count(k \in ListedKeys(nav_comp), k \in ListedKeys(l_excl),
                  k \in ListedKeys(p_excl)) = 1

(***************************************************************************)
(* C5: the rows of comp have a non-zero past and a non-zero latest value   *)
(* when Change % is about to be computed, and so has every row of the      *)
(* comparison output, whose Change % is then finite.                       *)
(***************************************************************************)
C5_ZeroDivisionSafe ==
    /\ pc = "run_change" =>
          \A i \in DOMAIN comp : comp[i].Past # 0 /\ comp[i].Latest # 0
    /\ pc \in {"run_concat", "run_done"} =>
          \A i \in DOMAIN nav_comp :
              /\ nav_comp[i].Past # 0 /\ nav_comp[i].Latest # 0
              /\ nav_comp[i].ChangePct < Inf /\ nav_comp[i].ChangePct > -Inf
C5_Witness ==
    /\ pc = "run_done"
    /\ p_zero # <<>>
    /\ \E i \in DOMAIN p_zero : p_zero[i].Latest # 0
    /\ nav_comp # <<>>

(***************************************************************************)
(* C6: two names that are equal up to letter case, whitespace runs and the *)
(* choice of dash glyph have the same join key, so that run joins the two  *)
(* periods' eligible rows of such names into one row.                      *)
(***************************************************************************)
C6_JoinKeyUnifiesGlyphs ==
    pc = "run_done" =>
        \A i \in DOMAIN l_res.final_df : \A j \in DOMAIN p_res.final_df :
            SameUpToGlyphs(l_res.final_df[i].name, p_res.final_df[j].name) =>
                /\ l_res.final_df[i].Key = p_res.final_df[j].Key
                /\ \E n \in DOMAIN merged :
                      /\ merged[n]._merge = "both"
                      /\ merged[n].name = l_res.final_df[i].name
                      /\ merged[n].Past = p_res.final_df[j].NAV

====
